---- MODULE Spec2Model ----
(***************************************************************************)
(* The LM75 temperature-sensor driver (LM75/Src/lm75.c, LM75/Inc/lm75.h). *)
(*                                                                         *)
(* Temperatures are C floats in the source.  Every value the driver        *)
(* handles here is a multiple of 0.125 degC of small magnitude, which a    *)
(* float holds exactly, so a temperature is modelled by the integer number *)
(* of eighths of a degree: 0.5 degC is 4, -55 degC is -440, the sentinel   *)
(* -1000.0 is -8000.                                                       *)
(*                                                                         *)
(* The I2C bus and the sensor behind it are outside the driver.  A         *)
(* transfer either succeeds (HAL_OK) and moves the bytes, or fails and     *)
(* moves nothing; which of the two happens is an input of every call.      *)
(***************************************************************************)
EXTENDS Integers, Sequences, FiniteSets, TLC

VARIABLES
    dev,    \* the LM75 handle: i2c, ver, addr, thyst_c, tos_c, temp_c
    reg,    \* the sensor's registers: pointer -> bytes, most significant first
    bus,    \* the transfers the last call issued, in order
    call,   \* the last call: its name, its arguments, the status it returned
    hist    \* the configuration register around the last HistLen calls

vars == <<dev, reg, bus, call, hist>>

----------------------------------------------------------------------------
(* Constants of lm75.c and lm75.h *)

LM75_TEMP_REG  == 0
LM75_CONF_REG  == 1
LM75_THYST_REG == 2
LM75_TOS_REG   == 3

SHUTDOWN    == 1
CMP_MODE    == 0
OS_ACT_LOW  == 0
TWO_FAULTS  == 8
FOUR_FAULTS == 16

MAX_REG_SIZE == 2
MIN_REG_SIZE == 1

MAX_TEMP == 125
MIN_TEMP == -55

LM75_OK    == 0
LM75_ERROR == 1

LM75_9BIT  == 0
LM75_11BIT == 1

\* a float holding x degrees, in eighths of a degree
Degrees(x) == 8 * x

\* CONV_ERR, -1000.0f
CONV_ERR == Degrees(-1000)

\* uint8_t and uint16_t hold their values modulo 2^8 and 2^16
U8(x)  == x % 256
U16(x) == x % 65536

Byte == 0..255

----------------------------------------------------------------------------
(* C's integer operators on non-negative operands *)

RECURSIVE BitAnd(_, _)
BitAnd(a, b) ==
    IF a = 0 \/ b = 0 THEN 0
    ELSE (a % 2) * (b % 2) + 2 * BitAnd(a \div 2, b \div 2)

RECURSIVE BitOr(_, _)
BitOr(a, b) ==
    IF a = 0 THEN b
    ELSE IF b = 0 THEN a
    ELSE (IF a % 2 = 1 \/ b % 2 = 1 THEN 1 ELSE 0) + 2 * BitOr(a \div 2, b \div 2)

RECURSIVE Shr(_, _)
Shr(a, n) == IF n = 0 THEN a ELSE Shr(a \div 2, n - 1)

\* ~x of a uint16_t, kept in 16 bits
Not16(x) == 65535 - x

\* x & ~(m) stored back into a uint8_t
AndNot8(x, m) == BitAnd(x, 255 - m)

\* a float converted to an integer type: the fraction is discarded (toward zero)
Trunc(t) == IF t >= 0 THEN t \div 8 ELSE -((-t) \div 8)

Abs(x) == IF x >= 0 THEN x ELSE -x

----------------------------------------------------------------------------
(* The bus.  w is the world a call runs in: [dev, reg, bus].               *)

HAL_I2C_Mem_Write(w, mem_addr, data, ok) ==
    [w EXCEPT !.bus = Append(@, [dir |-> "W", addr |-> w.dev.addr,
                                 mem |-> mem_addr, data |-> data, ok |-> ok]),
              !.reg = IF ok THEN [@ EXCEPT ![mem_addr] = data] ELSE @]

HAL_I2C_Mem_Read(w, mem_addr, size, ok) ==
    [w EXCEPT !.bus = Append(@, [dir |-> "R", addr |-> w.dev.addr,
                                 mem |-> mem_addr,
                                 data |-> IF ok THEN SubSeq(w.reg[mem_addr], 1, size)
                                          ELSE <<>>,
                                 ok |-> ok])]

Status(ok) == IF ok THEN LM75_OK ELSE LM75_ERROR

write_config(w, data, ok) ==
    [w |-> HAL_I2C_Mem_Write(w, LM75_CONF_REG, <<data>>, ok), ret |-> Status(ok)]

read_config(w, ok) ==
    [w |-> HAL_I2C_Mem_Read(w, LM75_CONF_REG, MIN_REG_SIZE, ok),
     ret |-> Status(ok),
     dest |-> IF ok THEN w.reg[LM75_CONF_REG][1] ELSE 0]

----------------------------------------------------------------------------
(* The codec *)

\* the two bytes write_temperature builds for temp
EncodeBytes(temp) ==
    LET v0 == Trunc(temp)
        v1 == IF Abs(temp - Degrees(v0)) >= 4 THEN 128 ELSE 0
    IN  <<U8(v0), v1>>

write_temperature(w, mem_addr, temp, ok) ==
    [w |-> HAL_I2C_Mem_Write(w, mem_addr, EncodeBytes(temp), ok), ret |-> Status(ok)]

\* (temp_data[0] << 8) | temp_data[1], stored in a uint16_t
RawOf(temp_data) == U16(BitOr(temp_data[1] * 256, temp_data[2]))

read_temperature(w, mem_addr, ok) ==
    LET w1 == HAL_I2C_Mem_Read(w, mem_addr, MAX_REG_SIZE, ok)
    IN  [w |-> w1, ret |-> Status(ok),
         dest |-> IF ok THEN RawOf(w.reg[mem_addr]) ELSE 0]

is_temperature_negative_gt(temp) == temp > 32768

is_temperature_negative(temp) == BitAnd(temp, 32768) # 0

conv_neg_temp_from_raw_no_inc(raw_temp, ver) ==
    LET inv == Not16(raw_temp)
    IN  IF ver = LM75_9BIT
        THEN [ret |-> LM75_OK, set |-> TRUE, dest |-> -(4 * U16(Shr(inv, 7)))]
        ELSE IF ver = LM75_11BIT
        THEN [ret |-> LM75_OK, set |-> TRUE, dest |-> -(U16(Shr(inv, 5)))]
        ELSE [ret |-> LM75_ERROR, set |-> FALSE, dest |-> 0]

\* set: whether *dest was written; dest: the value written
conv_neg_temp_from_raw(raw_temp, ver) ==
    LET inv == Not16(raw_temp)
    IN  IF ver = LM75_9BIT
        THEN [ret |-> LM75_OK, set |-> TRUE, dest |-> -(4 * U16(Shr(inv, 7) + 1))]
        ELSE IF ver = LM75_11BIT
        THEN [ret |-> LM75_OK, set |-> TRUE, dest |-> -(U16(Shr(inv, 5) + 1))]
        ELSE [ret |-> LM75_ERROR, set |-> FALSE, dest |-> 0]

conv_pos_temp_from_raw(raw_temp, ver) ==
    IF ver = LM75_9BIT
    THEN [ret |-> LM75_OK, set |-> TRUE, dest |-> 4 * Shr(raw_temp, 7)]
    ELSE IF ver = LM75_11BIT
    THEN [ret |-> LM75_OK, set |-> TRUE, dest |-> Shr(raw_temp, 5)]
    ELSE [ret |-> LM75_ERROR, set |-> FALSE, dest |-> 0]

----------------------------------------------------------------------------
(* The driver's operations.  Each takes the world it runs in and the       *)
(* outcome of every transfer it may issue, and gives the world it leaves   *)
(* and the status it returns.                                              *)

DefaultConfigFourFaults == BitOr(BitOr(FOUR_FAULTS, OS_ACT_LOW), CMP_MODE)

\* cfg_reg_value of LM75_Init
DefaultConfig == BitOr(BitOr(TWO_FAULTS, OS_ACT_LOW), CMP_MODE)

LimitsRejectedStrict(low_lim, upp_lim) == low_lim > upp_lim

\* LM75_Init's test of its limits
LimitsRejected(low_lim, upp_lim) == low_lim >= upp_lim

TempOutOfRangeExclusive(lim) == lim >= Degrees(MAX_TEMP) \/ lim < Degrees(MIN_TEMP)

TempOutOfRangeUpperOnly(lim) == lim > Degrees(MAX_TEMP)

\* the setters' test of their limit
TempOutOfRange(lim) == lim > Degrees(MAX_TEMP) \/ lim < Degrees(MIN_TEMP)

LM75_SetHysteresis(w, low_lim, ok) ==
    IF TempOutOfRange(low_lim) THEN [w |-> w, ret |-> LM75_ERROR]
    ELSE LET r == write_temperature(w, LM75_THYST_REG, low_lim, ok)
         IN  IF r.ret # LM75_OK THEN [w |-> r.w, ret |-> LM75_ERROR]
             ELSE [w |-> [r.w EXCEPT !.dev.thyst_c = low_lim], ret |-> LM75_OK]

LM75_SetOverTemperatureShutdown(w, upp_lim, ok) ==
    IF TempOutOfRange(upp_lim) THEN [w |-> w, ret |-> LM75_ERROR]
    ELSE LET r == write_temperature(w, LM75_TOS_REG, upp_lim, ok)
         IN  IF r.ret # LM75_OK THEN [w |-> r.w, ret |-> LM75_ERROR]
             ELSE [w |-> [r.w EXCEPT !.dev.tos_c = upp_lim], ret |-> LM75_OK]

\* oks[1], oks[2], oks[3]: the outcomes of the three writes, when issued
LM75_Init(w, hi2c, ver, addr, low_lim, upp_lim, oks) ==
    LET w0 == [w EXCEPT !.dev = [i2c |-> hi2c, ver |-> ver, addr |-> U8(addr * 2),
                                 thyst_c |-> 0, tos_c |-> 0, temp_c |-> 0]]
    IN  IF LimitsRejected(low_lim, upp_lim) THEN [w |-> w0, ret |-> LM75_ERROR]
        ELSE LET r1 == write_config(w0, DefaultConfig, oks[1])
             IN  IF r1.ret # LM75_OK THEN [w |-> r1.w, ret |-> LM75_ERROR]
                 ELSE LET r2 == LM75_SetHysteresis(r1.w, low_lim, oks[2])
                      IN  IF r2.ret # LM75_OK THEN [w |-> r2.w, ret |-> LM75_ERROR]
                          ELSE LET r3 == LM75_SetOverTemperatureShutdown(r2.w, upp_lim, oks[3])
                               IN  IF r3.ret # LM75_OK
                                   THEN [w |-> r3.w, ret |-> LM75_ERROR]
                                   ELSE [w |-> r3.w, ret |-> LM75_OK]

ConvFailedKeep(d) == d

\* what LM75_GetTemperature does to the handle when the conversion fails
ConvFailed(d) == [d EXCEPT !.temp_c = CONV_ERR]

\* the conversion LM75_GetTemperature picks for raw_temp
Convert(raw_temp, ver) ==
    IF is_temperature_negative(raw_temp)
    THEN conv_neg_temp_from_raw(raw_temp, ver)
    ELSE conv_pos_temp_from_raw(raw_temp, ver)

LM75_GetTemperature(w, ok) ==
    LET r == read_temperature(w, LM75_TEMP_REG, ok)
    IN  IF r.ret # LM75_OK THEN [w |-> r.w, ret |-> LM75_ERROR]
        ELSE LET c == Convert(r.dest, w.dev.ver)
                 d == IF c.set THEN [r.w.dev EXCEPT !.temp_c = c.dest] ELSE r.w.dev
             IN  IF c.ret # LM75_OK
                 THEN [w |-> [r.w EXCEPT !.dev = ConvFailed(d)], ret |-> LM75_ERROR]
                 ELSE [w |-> [r.w EXCEPT !.dev = d], ret |-> LM75_OK]

SetShutdownBitAssign(cfg) == SHUTDOWN

\* cfg_reg_value |= SHUTDOWN
SetShutdownBit(cfg) == U8(BitOr(cfg, SHUTDOWN))

ClearShutdownBitNoNot(cfg) == BitAnd(cfg, SHUTDOWN)

\* cfg_reg_value &= ~(SHUTDOWN)
ClearShutdownBit(cfg) == AndNot8(cfg, SHUTDOWN)

LM75_ShutdownEnable(w, ok_read, ok_write) ==
    LET r == read_config(w, ok_read)
    IN  IF r.ret # LM75_OK THEN [w |-> r.w, ret |-> LM75_ERROR]
        ELSE LET r2 == write_config(r.w, SetShutdownBit(r.dest), ok_write)
             IN  IF r2.ret # LM75_OK THEN [w |-> r2.w, ret |-> LM75_ERROR]
                 ELSE [w |-> r2.w, ret |-> LM75_OK]

LM75_ShutdownDisable(w, ok_read, ok_write) ==
    LET r == read_config(w, ok_read)
    IN  IF r.ret # LM75_OK THEN [w |-> r.w, ret |-> LM75_ERROR]
        ELSE LET r2 == write_config(r.w, ClearShutdownBit(r.dest), ok_write)
             IN  IF r2.ret # LM75_OK THEN [w |-> r2.w, ret |-> LM75_ERROR]
                 ELSE [w |-> r2.w, ret |-> LM75_OK]

LM75_SetConfiguration(w, reg_val, ok) ==
    LET r == write_config(w, reg_val, ok)
    IN  IF r.ret # LM75_OK THEN [w |-> r.w, ret |-> LM75_ERROR]
        ELSE [w |-> r.w, ret |-> LM75_OK]

----------------------------------------------------------------------------
(* Bounds and inputs *)

\* how many calls hist remembers
HistLen == 2

\* hi2c is an opaque pointer; 0 is NULL
Handles == {1}

\* 2 stands for any value outside LM75_Version
Versions == {LM75_9BIT, LM75_11BIT, 2}

\* 0x48, the LM75's base address
Addrs == {72}

\* <<low_lim, upp_lim>> given to LM75_Init, in eighths of a degree:
\* (80, 75), (75, 75), (75, 80), (-55, 125), (-56, 0), (0, 126)
InitLimits == {<<640, 600>>, <<600, 600>>, <<600, 640>>, <<-440, 1000>>,
               <<-448, 0>>, <<0, 1008>>}

\* limits given to the setters: -56, -55, 125, 125.125
SetTemps == {-448, -440, 1000, 1001}

\* values given to LM75_SetConfiguration
ConfBytes == {25}

\* contents of the temperature register: 0x4B00, 0xC900
TempRaws == {<<75, 0>>, <<201, 0>>}

\* what the fields of a handle hold before LM75_Init has run
Garbage == {0, 2400}

Outcomes == BOOLEAN

AllOk == [i \in 1..3 |-> TRUE]

\* the outcomes of LM75_Init's writes: all succeed (0), or the n-th fails;
\* no write follows a failed one, so its outcome is never asked for
InitOutcomes == {[i \in 1..3 |-> i # n] : n \in 0..3}

\* the points of [-55, 124.5] a sensor version resolves
Grid(ver) == IF ver = LM75_9BIT
             THEN {4 * n : n \in (-110)..249}
             ELSE (-440)..996

----------------------------------------------------------------------------
(* The state machine *)

W == [dev |-> dev, reg |-> reg, bus |-> <<>>]

Do(r, op, args) ==
    /\ dev' = r.w.dev
    /\ reg' = r.w.reg
    /\ bus' = r.w.bus
    /\ call' = [op |-> op, args |-> args, ret |-> r.ret]

Called == call.op # "none"

CallInit ==
    \E hi2c \in Handles, ver \in Versions, addr \in Addrs, lim \in InitLimits,
       oks \in InitOutcomes :
        Do(LM75_Init(W, hi2c, ver, addr, lim[1], lim[2], oks),
           "LM75_Init", <<hi2c, ver, addr, lim[1], lim[2]>>)

CallSetHysteresis(T, O) ==
    /\ Called
    /\ \E low_lim \in T, ok \in O :
        Do(LM75_SetHysteresis(W, low_lim, ok), "LM75_SetHysteresis", <<low_lim>>)

CallSetOverTemperatureShutdown(T, O) ==
    /\ Called
    /\ \E upp_lim \in T, ok \in O :
        Do(LM75_SetOverTemperatureShutdown(W, upp_lim, ok),
           "LM75_SetOverTemperatureShutdown", <<upp_lim>>)

CallGetTemperature ==
    /\ Called
    /\ \E ok \in Outcomes :
        Do(LM75_GetTemperature(W, ok), "LM75_GetTemperature", <<>>)

CallShutdownEnable ==
    /\ Called
    /\ \E ok_read \in Outcomes, ok_write \in Outcomes :
        Do(LM75_ShutdownEnable(W, ok_read, ok_write), "LM75_ShutdownEnable", <<>>)

CallShutdownDisable ==
    /\ Called
    /\ \E ok_read \in Outcomes, ok_write \in Outcomes :
        Do(LM75_ShutdownDisable(W, ok_read, ok_write), "LM75_ShutdownDisable", <<>>)

CallSetConfiguration ==
    /\ Called
    /\ \E reg_val \in ConfBytes, ok \in Outcomes :
        Do(LM75_SetConfiguration(W, reg_val, ok), "LM75_SetConfiguration", <<reg_val>>)

\* the configuration register before and after the call just made
Logged ==
    hist' = LET h == Append(hist, [op |-> call'.op, ret |-> call'.ret,
                                   before |-> reg[LM75_CONF_REG][1],
                                   after |-> reg'[LM75_CONF_REG][1]])
            IN  IF Len(h) > HistLen THEN Tail(h) ELSE h

\* a handle LM75_Init has not run on yet
Uninitialized == [i2c : {0}, ver : {2}, addr : {0},
                  thyst_c : Garbage, tos_c : Garbage, temp_c : {0}]

\* the sensor with temp in its temperature register and conf in its
\* configuration register
Sensor(temp, conf) ==
    (LM75_TEMP_REG :> temp) @@ (LM75_CONF_REG :> <<conf>>)
    @@ (LM75_THYST_REG :> <<75, 0>>) @@ (LM75_TOS_REG :> <<80, 0>>)

Init ==
    /\ dev \in Uninitialized
    /\ \E t \in TempRaws, c \in ConfBytes : reg = Sensor(t, c)
    /\ bus = <<>>
    /\ call = [op |-> "none", args |-> <<>>, ret |-> LM75_OK]
    /\ hist = <<>>

Next ==
    \/ CallInit /\ UNCHANGED hist
    \/ CallSetHysteresis(SetTemps, Outcomes) /\ UNCHANGED hist
    \/ CallSetOverTemperatureShutdown(SetTemps, Outcomes) /\ UNCHANGED hist
    \/ CallGetTemperature /\ UNCHANGED hist
    \/ CallShutdownEnable /\ UNCHANGED hist
    \/ CallShutdownDisable /\ UNCHANGED hist
    \/ CallSetConfiguration /\ UNCHANGED hist

Spec == Init /\ [][Next]_vars

----------------------------------------------------------------------------
(* The decoder over every content of the temperature register: the handle  *)
(* has been initialized (limits 75 and 80), the register holds any two     *)
(* bytes, and the temperature is read.                                     *)

Start(r, op, args) ==
    /\ dev = r.w.dev
    /\ reg = r.w.reg
    /\ bus = r.w.bus
    /\ call = [op |-> op, args |-> args, ret |-> r.ret]
    /\ hist = <<>>

Blank == CHOOSE d \in Uninitialized : TRUE

Initialized(ver, temp, conf) ==
    LM75_Init([dev |-> Blank, reg |-> Sensor(temp, conf), bus |-> <<>>],
              1, ver, 72, 600, 640, AllOk)

InitDecode ==
    \E ver \in Versions, b0 \in Byte, b1 \in Byte :
        Start(Initialized(ver, <<b0, b1>>, 0), "LM75_Init", <<1, ver, 72, 600, 640>>)

NextDecode == CallGetTemperature /\ UNCHANGED hist

SpecDecode == InitDecode /\ [][NextDecode]_vars

----------------------------------------------------------------------------
(* The encoder over every limit of the grid: the handle has been           *)
(* initialized for a 9-bit or an 11-bit sensor, and the hysteresis is set  *)
(* to points of that sensor's grid over a bus that works.                  *)

InitCodec ==
    \E ver \in {LM75_9BIT, LM75_11BIT} :
        Start(Initialized(ver, <<0, 0>>, 0), "LM75_Init", <<1, ver, 72, 600, 640>>)

NextCodec == CallSetHysteresis(Grid(dev.ver), {TRUE}) /\ UNCHANGED hist

SpecCodec == InitCodec /\ [][NextCodec]_vars

----------------------------------------------------------------------------
(* The shutdown bit over every content of the configuration register: the  *)
(* handle has been initialized, LM75_SetConfiguration has written any byte,*)
(* and shutdown is enabled and disabled.                                   *)

InitShutdown ==
    \E c \in Byte :
        Start(LM75_SetConfiguration([Initialized(LM75_9BIT, <<0, 0>>, 0).w
                                        EXCEPT !.bus = <<>>], c, TRUE),
              "LM75_SetConfiguration", <<c>>)

NextShutdown ==
    \/ CallShutdownEnable /\ Logged
    \/ CallShutdownDisable /\ Logged
    \/ CallSetConfiguration /\ Logged

SpecShutdown == InitShutdown /\ [][NextShutdown]_vars

----------------------------------------------------------------------------
(* Reference definitions the claims are stated with *)

Recognized(ver) == ver \in {LM75_9BIT, LM75_11BIT}

\* one fractional step of a version, in eighths of a degree
StepOf(ver) == IF ver = LM75_9BIT THEN 4 ELSE 1

InRange(t) == Degrees(MIN_TEMP) <= t /\ t <= Degrees(MAX_TEMP)

\* the register bytes read as a signed 16-bit integer, divided by 2^k
\* rounding down, times the step
TwosComplement(bytes, ver) ==
    LET u == 256 * bytes[1] + bytes[2]
        s == IF u >= 32768 THEN u - 65536 ELSE u
    IN  IF ver = LM75_9BIT THEN 4 * (s \div 128) ELSE s \div 32

\* the last two calls were a successful LM75_ShutdownEnable and then a
\* successful LM75_ShutdownDisable
EnabledThenDisabled ==
    /\ Len(hist) >= 2
    /\ hist[Len(hist) - 1].op = "LM75_ShutdownEnable"
    /\ hist[Len(hist) - 1].ret = LM75_OK
    /\ hist[Len(hist)].op = "LM75_ShutdownDisable"
    /\ hist[Len(hist)].ret = LM75_OK

IsSetter(op) == op \in {"LM75_SetHysteresis", "LM75_SetOverTemperatureShutdown"}

\* the handle d with the setter's cached field set to t
Cached(d, op, t) ==
    IF op = "LM75_SetHysteresis" THEN [d EXCEPT !.thyst_c = t]
    ELSE [d EXCEPT !.tos_c = t]

SetterReg(op) == IF op = "LM75_SetHysteresis" THEN LM75_THYST_REG ELSE LM75_TOS_REG

\* how many writes LM75_Init issues for these limits when b is its bus log
InitWrites(low_lim, upp_lim, b) ==
    IF low_lim >= upp_lim THEN 0
    ELSE IF ~b[1].ok \/ ~InRange(low_lim) THEN 1
    ELSE IF ~b[2].ok \/ ~InRange(upp_lim) THEN 2
    ELSE 3

InitOrder == <<LM75_CONF_REG, LM75_THYST_REG, LM75_TOS_REG>>

----------------------------------------------------------------------------
(* The claims *)

\* C1 (as stated; SpecCodec): after LM75_SetHysteresis has written a limit
\* of the version's grid, decoding the two bytes now in the register, as
\* LM75_GetTemperature decodes, gives a value within one fractional step of
\* the limit.
C1_RoundTrip ==
    (call.op = "LM75_SetHysteresis" /\ call.ret = LM75_OK)
    => Abs(Convert(RawOf(reg[LM75_THYST_REG]), dev.ver).dest - call.args[1])
       <= StepOf(dev.ver)

\* C2 (as stated; Spec): when LM75_GetTemperature returns an error, temp_c
\* is the sentinel -1000.0; when it returns OK, temp_c is the decoded value.
C2_SentinelOnAnyFailure ==
    call.op = "LM75_GetTemperature"
    => /\ call.ret = LM75_ERROR => dev.temp_c = CONV_ERR
       /\ call.ret = LM75_OK
          => dev.temp_c = TwosComplement(reg[LM75_TEMP_REG], dev.ver)

\* C2 (amended; Spec): LM75_GetTemperature issues one read.  If the read
\* fails it returns an error and leaves the handle, temp_c included, as it
\* was.  If the read succeeds and the version is unrecognized it returns an
\* error and temp_c is the sentinel -1000.0.  Otherwise it returns OK and
\* temp_c is the decoded value.  No other field of the handle changes.
C2_SentinelOnConversionFailure ==
    [][call'.op = "LM75_GetTemperature"
       => /\ Len(bus') = 1
          /\ ~bus'[1].ok => call'.ret = LM75_ERROR /\ dev' = dev
          /\ (bus'[1].ok /\ ~Recognized(dev.ver))
             => /\ call'.ret = LM75_ERROR
                /\ dev' = [dev EXCEPT !.temp_c = CONV_ERR]
          /\ (bus'[1].ok /\ Recognized(dev.ver))
             => /\ call'.ret = LM75_OK
                /\ dev' = [dev EXCEPT
                             !.temp_c = TwosComplement(reg[LM75_TEMP_REG], dev.ver)]
    ]_vars

\* C2 witness: a failed read has returned an error and temp_c is not the
\* sentinel.
C2_Witness ==
    /\ call.op = "LM75_GetTemperature"
    /\ call.ret = LM75_ERROR
    /\ ~bus[1].ok
    /\ dev.temp_c # CONV_ERR

\* C3 (as stated; SpecShutdown): after a successful LM75_ShutdownEnable
\* followed by a successful LM75_ShutdownDisable the configuration register
\* equals what it held before the two calls.
C3_ToggleRestores ==
    EnabledThenDisabled => hist[Len(hist)].after = hist[Len(hist) - 1].before

\* C3 (amended; SpecShutdown): after a successful LM75_ShutdownEnable
\* followed by a successful LM75_ShutdownDisable the configuration register
\* equals what it held before the two calls with bit 0 cleared.
C3_ToggleClearsBit0 ==
    EnabledThenDisabled
    => LET c == hist[Len(hist) - 1].before
       IN  hist[Len(hist)].after = c - (c % 2)

\* C3 witness: the toggle has run from a register whose bit 0 was set.
C3_Witness ==
    /\ EnabledThenDisabled
    /\ hist[Len(hist) - 1].before = 255
    /\ reg[LM75_CONF_REG] = <<254>>

\* C4 (Spec): LM75_Init given low_lim >= upp_lim returns an error, issues
\* no transfer and leaves every register of the sensor as it was.
C4_InitRejectsUnorderedLimits ==
    [][(call'.op = "LM75_Init" /\ call'.args[4] >= call'.args[5])
       => /\ call'.ret = LM75_ERROR
          /\ bus' = <<>>
          /\ reg' = reg
    ]_vars

\* C4 witness: LM75_Init(80, 75) has returned an error without a transfer.
C4_Witness ==
    /\ call.op = "LM75_Init"
    /\ call.args[4] = 640 /\ call.args[5] = 600
    /\ call.ret = LM75_ERROR
    /\ bus = <<>>

\* C5 (Spec): a setter given a limit outside [-55, 125] returns an error,
\* issues no transfer and changes nothing; given a limit inside, bounds
\* included, it issues one write to its register, and returns OK with its
\* cached field set to the limit if the write succeeds, an error with the
\* handle unchanged if it fails.
C5_SetterUpdatesCacheOnSuccess ==
    [][IsSetter(call'.op)
       => LET t == call'.args[1]
          IN  /\ ~InRange(t)
                 => /\ call'.ret = LM75_ERROR
                    /\ bus' = <<>>
                    /\ dev' = dev
                    /\ reg' = reg
              /\ InRange(t)
                 => /\ Len(bus') = 1
                    /\ bus'[1].dir = "W"
                    /\ bus'[1].mem = SetterReg(call'.op)
                    /\ ~bus'[1].ok => call'.ret = LM75_ERROR /\ dev' = dev
                    /\ bus'[1].ok
                       => /\ call'.ret = LM75_OK
                          /\ dev' = Cached(dev, call'.op, t)
    ]_vars

\* C5 witness: LM75_SetHysteresis(125) has succeeded.
C5_Witness ==
    /\ call.op = "LM75_SetHysteresis"
    /\ call.args = <<1000>>
    /\ call.ret = LM75_OK
    /\ dev.thyst_c = 1000

\* C6 (SpecShutdown): LM75_ShutdownEnable and LM75_ShutdownDisable leave
\* the handle and the other registers alone.  If the read of the
\* configuration register fails, nothing is written.  A successful call
\* leaves bits 1..7 of the register as they were, with bit 0 set by
\* LM75_ShutdownEnable and cleared by LM75_ShutdownDisable.
C6_ShutdownTouchesOnlyBit0 ==
    [][call'.op \in {"LM75_ShutdownEnable", "LM75_ShutdownDisable"}
       => LET c == reg[LM75_CONF_REG][1]
              n == reg'[LM75_CONF_REG][1]
              bit == IF call'.op = "LM75_ShutdownEnable" THEN 1 ELSE 0
          IN  /\ dev' = dev
              /\ \A m \in DOMAIN reg : m # LM75_CONF_REG => reg'[m] = reg[m]
              /\ bus'[1].dir = "R"
              /\ ~bus'[1].ok
                 => /\ Len(bus') = 1
                    /\ call'.ret = LM75_ERROR
                    /\ reg' = reg
              /\ call'.ret = LM75_OK
                 => /\ Len(bus') = 2
                    /\ bus'[2].dir = "W"
                    /\ bus'[2].data = <<n>>
                    /\ n \div 2 = c \div 2
                    /\ n % 2 = bit
    ]_vars

\* C6 witness: LM75_ShutdownEnable has succeeded on a register that held
\* 0xFE.
C6_Witness ==
    /\ call.op = "LM75_ShutdownEnable"
    /\ call.ret = LM75_OK
    /\ hist[Len(hist)].before = 254
    /\ reg[LM75_CONF_REG] = <<255>>

\* C7 (SpecDecode): a successful LM75_GetTemperature stores exactly 0.0 for
\* raw 0x0000 and a negative value for raw 0x8000; on a 9-bit sensor it
\* stores -55.0 within 0.5 for raw 0xC900 and 75.0 within 0.5 for raw 0x4B00.
C7_KnownVectors ==
    (call.op = "LM75_GetTemperature" /\ call.ret = LM75_OK)
    => /\ reg[LM75_TEMP_REG] = <<0, 0>> => dev.temp_c = 0
       /\ reg[LM75_TEMP_REG] = <<128, 0>> => dev.temp_c < 0
       /\ (dev.ver = LM75_9BIT /\ reg[LM75_TEMP_REG] = <<201, 0>>)
          => Abs(dev.temp_c - Degrees(-55)) <= 4
       /\ (dev.ver = LM75_9BIT /\ reg[LM75_TEMP_REG] = <<75, 0>>)
          => Abs(dev.temp_c - Degrees(75)) <= 4

\* C7 witness: raw 0x8000 has been read on an 11-bit sensor.
C7_Witness ==
    /\ call.op = "LM75_GetTemperature"
    /\ call.ret = LM75_OK
    /\ dev.ver = LM75_11BIT
    /\ reg[LM75_TEMP_REG] = <<128, 0>>
    /\ dev.temp_c < 0

\* C8 (Spec): once LM75_Init has been called, thyst_c and tos_c lie in
\* [-55, 125] whatever is called next and however the bus behaves; right
\* after a successful LM75_Init, thyst_c < tos_c.
C8_ThresholdsInRange ==
    /\ Called => InRange(dev.thyst_c) /\ InRange(dev.tos_c)
    /\ (call.op = "LM75_Init" /\ call.ret = LM75_OK) => dev.thyst_c < dev.tos_c

\* C8 witness: the setters have moved the thresholds to the two bounds,
\* hysteresis above shutdown, and a limit outside the range was refused.
C8_Witness ==
    /\ call.op = "LM75_SetHysteresis"
    /\ call.args = <<-448>>
    /\ call.ret = LM75_ERROR
    /\ dev.thyst_c = Degrees(MAX_TEMP)
    /\ dev.tos_c = Degrees(MIN_TEMP)

\* C9 (Spec): LM75_Init issues only writes, to the configuration register
\* (0x08), then the hysteresis register, then the over-temperature register.
\* It stops at the first step that fails, a failed write or a limit outside
\* [-55, 125]; the writes made before stay in the sensor; it returns OK
\* exactly when all three writes succeeded.
C9_InitWriteOrder ==
    [][call'.op = "LM75_Init"
       => LET b == bus'
              k == InitWrites(call'.args[4], call'.args[5], b)
          IN  /\ Len(b) = k
              /\ \A i \in 1..Len(b) :
                    /\ b[i].dir = "W"
                    /\ b[i].mem = InitOrder[i]
                    /\ b[i].addr = dev'.addr
                    /\ i < Len(b) => b[i].ok
                    /\ b[i].ok => reg'[b[i].mem] = b[i].data
              /\ Len(b) >= 1 => b[1].data = <<8>>
              /\ call'.ret = LM75_OK <=> (Len(b) = 3 /\ b[3].ok)
    ]_vars

\* C9 witness: LM75_Init has failed at its second write; the configuration
\* register keeps the default it wrote first.
C9_Witness ==
    /\ call.op = "LM75_Init"
    /\ call.ret = LM75_ERROR
    /\ Len(bus) = 2
    /\ ~bus[2].ok
    /\ reg[LM75_CONF_REG] = <<8>>

\* C10 (SpecDecode): for every content of the temperature register, a
\* successful LM75_GetTemperature stores step * floor(s / 2^k), s being the
\* register read as a signed 16-bit integer, with k = 7 and step 0.5 on a
\* 9-bit sensor, k = 5 and step 0.125 on an 11-bit one.
C10_DecodeIsTwosComplement ==
    (call.op = "LM75_GetTemperature" /\ call.ret = LM75_OK)
    => dev.temp_c = TwosComplement(reg[LM75_TEMP_REG], dev.ver)

\* C10 witness: raw 0xFF01, negative with its unused low bits not zero, has
\* been read on a 9-bit sensor as -1.0.
C10_Witness ==
    /\ call.op = "LM75_GetTemperature"
    /\ call.ret = LM75_OK
    /\ dev.ver = LM75_9BIT
    /\ reg[LM75_TEMP_REG] = <<255, 1>>
    /\ dev.temp_c = Degrees(-1)

====
